---- MODULE Spec2Model ----
(* Model of vitts/utils/phonemizer/character.py: the BaseCharacters and     *)
(* BaseVocabulary symbol tables.                                            *)
(*                                                                          *)
(* A Python str is a sequence of character codes; list(str) is the sequence *)
(* of its one-character strings.  None is a value distinct from every str.  *)
(* A dict is the sequence of its <<key, value>> items in insertion order.   *)
EXTENDS Integers, Sequences, FiniteSets

VARIABLES pc, self, built, dups, ret

vars == <<pc, self, built, dups, ret>>

----------------------------------------------------------------------------
(* Bounds of the model *)

MaxChars == 2
MaxPuncts == 1
MaxDict == 2

----------------------------------------------------------------------------
(* Values *)

None == <<0>>

\* config.characters is None: an optional section is <<>> or <<section>>
NoCharacters == <<>>

\* character codes, in code-point order: "!" < "Z" < "a" < "b"
Bang == 1
Zed == 2
LetterA == 3
LetterB == 4

_pad == <<9, 1>>
_eos == <<9, 2>>
_bos == <<9, 3>>
_blank == <<9, 4>>

RECURSIVE StrsUpTo(_, _)
StrsUpTo(alphabet, n) ==
    IF n = 0 THEN {<<>>}
    ELSE LET shorter == StrsUpTo(alphabet, n - 1)
         IN shorter \cup {Append(s, c) : s \in shorter, c \in alphabet}

CharacterInputs == {None} \cup StrsUpTo({LetterA, LetterB}, MaxChars)
PunctuationInputs == {None} \cup StrsUpTo({Bang, LetterB}, MaxPuncts)
PadInputs == {None, <<>>, <<LetterA>>, _pad}
EosInputs == {None, _eos}
BosInputs == {None, _bos}
BlankInputs == {None, <<>>, _pad, _blank}

----------------------------------------------------------------------------
(* Python built-ins used by the module *)

\* list(s) for a str s
list(s) == [i \in 1..Len(s) |-> <<s[i]>>]

Range(s) == {s[i] : i \in 1..Len(s)}

\* the iteration orders list(set(s)) can produce: every arrangement of the
\* distinct elements (str hashing is randomised per process)
SetOrders(s) ==
    LET elems == Range(list(s))
        n == Cardinality(elems)
    IN {o \in [1..n -> elems] : \A i, j \in 1..n : o[i] = o[j] => i = j}

\* str comparison: lexicographic on code points
RECURSIVE StrLess(_, _)
StrLess(a, b) ==
    IF b = <<>> THEN FALSE
    ELSE IF a = <<>> THEN TRUE
    ELSE IF a[1] # b[1] THEN a[1] < b[1]
    ELSE StrLess(Tail(a), Tail(b))

\* sorted(v): ascending, duplicates kept
RECURSIVE Insert(_, _)
Insert(x, v) ==
    IF v = <<>> THEN <<x>>
    ELSE IF StrLess(x, Head(v)) THEN <<x>> \o v
    ELSE <<Head(v)>> \o Insert(x, Tail(v))

RECURSIVE sorted(_)
sorted(v) == IF v = <<>> THEN <<>> ELSE Insert(Head(v), sorted(Tail(v)))

\* v.count(x)
count(v, x) == Cardinality({i \in 1..Len(v) : v[i] = x})

\* truthiness of an Optional[str]: None and "" are falsy
truthy(x) == x # None /\ x # <<>>

\* {char: idx for idx, char in enumerate(v)}: a later item overwrites
EnumCharToId(v) ==
    [c \in Range(v) |-> (CHOOSE i \in 1..Len(v) :
                            v[i] = c /\ \A j \in 1..Len(v) : v[j] = c => j <= i) - 1]

\* {idx: char for idx, char in enumerate(v)}
EnumIdToChar(v) == [i \in 0..(Len(v) - 1) |-> v[i + 1]]

----------------------------------------------------------------------------
(* class BaseCharacters *)

\* the instance attributes assigned by __init__ before _create_vocab runs;
\* _vocab, _char_to_id and _id_to_char do not exist yet (shown empty)
Attributes(characters, punctuations, pad, eos, bos, blank, is_unique, is_sorted) ==
    [characters |-> characters, punctuations |-> punctuations,
     pad |-> pad, eos |-> eos, bos |-> bos, blank |-> blank,
     is_unique |-> is_unique, is_sorted |-> is_sorted,
     vocab |-> <<>>, char_to_id |-> <<>>, id_to_char |-> <<>>]

\* vocab setter that patches the tables: entries of the old vocab stay
vocab_setter_Patching(obj, vocab) ==
    [obj EXCEPT !.vocab = vocab,
                !.char_to_id = [c \in DOMAIN obj.char_to_id \cup Range(vocab) |->
                                  IF c \in Range(vocab) THEN EnumCharToId(vocab)[c]
                                  ELSE obj.char_to_id[c]],
                !.id_to_char = EnumIdToChar(vocab)]

\* @vocab.setter
vocab_setter(obj, vocab) ==
    [obj EXCEPT !.vocab = vocab,
                !.char_to_id = EnumCharToId(vocab),
                !.id_to_char = EnumIdToChar(vocab)]

\* Prepend without the len(token) > 0 test
Prepend_KeepsEmpty(token, v) == IF token # None THEN <<token>> \o v ELSE v

\* [token] + v if token is not None and len(token) > 0 else v
Prepend(token, v) == IF token # None /\ Len(token) > 0 THEN <<token>> \o v ELSE v

\* Assemble with the four prepends in the order pad, eos, bos, blank
Assemble_BlankFirst(obj, order) ==
    LET v1 == IF obj.is_unique THEN order ELSE list(obj.characters)
        v2 == IF obj.is_sorted THEN sorted(v1) ELSE v1
        v3 == IF obj.pad # None /\ Len(obj.pad) > 0 THEN <<obj.pad>> \o v2 ELSE v2
        v4 == IF obj.eos # None /\ Len(obj.eos) > 0 THEN <<obj.eos>> \o v3 ELSE v3
        v5 == IF obj.bos # None /\ Len(obj.bos) > 0 THEN <<obj.bos>> \o v4 ELSE v4
    IN IF obj.blank # None /\ Len(obj.blank) > 0 THEN <<obj.blank>> \o v5 ELSE v5

\* the list assembled by _create_vocab before the punctuations are appended;
\* set(), sorted() and list() each iterate the str they are given, and order
\* is the iteration order of set(characters)
Assemble(obj, order) ==
    LET v1 == IF obj.is_unique THEN order ELSE list(obj.characters)
        v2 == IF obj.is_sorted THEN sorted(v1) ELSE v1
        v3 == Prepend(obj.blank, v2)
        v4 == Prepend(obj.bos, v3)
        v5 == Prepend(obj.eos, v4)
    IN Prepend(obj.pad, v5)

\* Duplicates with count(x) >= 1 for count(x) > 1
Duplicates_AnyCount(vocab) == {x \in Range(vocab) : count(vocab, x) >= 1}

\* the symbols occurring more than once, as the assertion message names them
Duplicates(vocab) == {x \in Range(vocab) : count(vocab, x) > 1}

\* _create_vocab without the is_unique assertion
_create_vocab_Unchecked(obj, order) ==
    IF obj.characters = None \/ obj.punctuations = None
    THEN [obj |-> obj, exc |-> "TypeError", dups |-> {}]
    ELSE [obj |-> [obj EXCEPT
                     !.vocab = Assemble(obj, order) \o list(obj.punctuations),
                     !.char_to_id =
                        EnumCharToId(Assemble(obj, order) \o list(obj.punctuations)),
                     !.id_to_char =
                        EnumIdToChar(Assemble(obj, order) \o list(obj.punctuations))],
          exc |-> "none", dups |-> {}]

\* _create_vocab: the object afterwards, the exception raised (if any) and
\* the duplicates the assertion message carries
_create_vocab(obj, order) ==
    IF obj.characters = None
    THEN [obj |-> obj, exc |-> "TypeError", dups |-> {}]
    ELSE IF obj.punctuations = None
    THEN [obj |-> obj, exc |-> "TypeError", dups |-> {}]
    ELSE LET after == vocab_setter(obj, Assemble(obj, order) \o list(obj.punctuations))
         IN IF obj.is_unique
               /\ ~(Len(after.vocab) = Cardinality(DOMAIN after.char_to_id)
                    /\ Cardinality(DOMAIN after.char_to_id)
                         = Cardinality(DOMAIN after.id_to_char))
            THEN [obj |-> after, exc |-> "AssertionError",
                  dups |-> Duplicates(after.vocab)]
            ELSE [obj |-> after, exc |-> "none", dups |-> {}]

\* the orders in which _create_vocab may see set(obj.characters) iterate; the
\* set is built only when is_unique holds (and set(None) raises instead)
IterationOrders(obj) ==
    IF obj.is_unique /\ obj.characters # None
    THEN SetOrders(obj.characters)
    ELSE {<<>>}

\* BaseCharacters.__init__, k its keyword arguments
BaseCharacters_init(k, order) ==
    _create_vocab(Attributes(k.characters, k.punctuations, k.pad, k.eos, k.bos,
                             k.blank, k.is_unique, k.is_sorted), order)

\* num_chars
num_chars(obj) == Len(obj.vocab)

\* char_to_id answering an unknown symbol with the sentinel id
char_to_id_Fallback(obj, char) ==
    [op |-> "char_to_id", arg |-> char, exc |-> "none",
     val |-> IF char \in DOMAIN obj.char_to_id THEN obj.char_to_id[char]
             ELSE Len(obj.vocab)]

\* char_to_id: the id, or KeyError carrying the symbol
char_to_id(obj, char) ==
    IF char \in DOMAIN obj.char_to_id
    THEN [op |-> "char_to_id", arg |-> char, exc |-> "none", val |-> obj.char_to_id[char]]
    ELSE [op |-> "char_to_id", arg |-> char, exc |-> "KeyError", val |-> char]

\* id_to_char: the symbol, or the dict's KeyError
id_to_char(obj, idx) ==
    IF idx \in DOMAIN obj.id_to_char
    THEN [op |-> "id_to_char", arg |-> idx, exc |-> "none", val |-> obj.id_to_char[idx]]
    ELSE [op |-> "id_to_char", arg |-> idx, exc |-> "KeyError", val |-> idx]

\* pad_id testing "is not None" in place of truthiness
pad_id_NotNone(obj) ==
    IF obj.pad # None
    THEN [op |-> "pad_id", arg |-> obj.pad,
          exc |-> IF obj.pad \in DOMAIN obj.char_to_id THEN "none" ELSE "KeyError",
          val |-> IF obj.pad \in DOMAIN obj.char_to_id THEN obj.char_to_id[obj.pad]
                  ELSE obj.pad]
    ELSE [op |-> "pad_id", arg |-> obj.pad, exc |-> "none", val |-> Len(obj.vocab)]

\* pad_id
pad_id(obj) ==
    IF truthy(obj.pad)
    THEN [char_to_id(obj, obj.pad) EXCEPT !.op = "pad_id"]
    ELSE [op |-> "pad_id", arg |-> obj.pad, exc |-> "none", val |-> Len(obj.vocab)]

\* blank_id
blank_id(obj) ==
    IF truthy(obj.blank)
    THEN [char_to_id(obj, obj.blank) EXCEPT !.op = "blank_id"]
    ELSE [op |-> "blank_id", arg |-> obj.blank, exc |-> "none", val |-> Len(obj.vocab)]

----------------------------------------------------------------------------
(* class BaseVocabulary *)

\* the keys of a dict, in iteration order
Keys(d) == [i \in 1..Len(d) |-> d[i][1]]

\* @vocab.setter: enumerate(dict) enumerates the keys
BaseVocabulary_vocab_setter(obj, vocab) ==
    [obj EXCEPT !.vocab = vocab,
                !.char_to_id = EnumCharToId(Keys(vocab)),
                !.id_to_char = EnumIdToChar(Keys(vocab))]

\* BaseVocabulary.__init__
BaseVocabulary_init(vocab, pad, blank, bos, eos) ==
    [BaseVocabulary_vocab_setter(
        [vocab |-> <<>>, char_to_id |-> <<>>, id_to_char |-> <<>>,
         pad |-> None, blank |-> None, bos |-> None, eos |-> None], vocab)
     EXCEPT !.pad = pad, !.blank = blank, !.bos = bos, !.eos = eos]

\* BaseVocabulary.init_from_config: the pair (vocabulary, config)
BaseVocabulary_init_from_config(config, kwargs) ==
    IF config.characters # NoCharacters /\ config.characters[1].has_vocab_dict
       /\ Len(config.characters[1].vocab_dict) > 0
    THEN [obj |-> BaseVocabulary_init(config.characters[1].vocab_dict,
                                      config.characters[1].pad,
                                      config.characters[1].blank,
                                      config.characters[1].bos,
                                      config.characters[1].eos),
          config |-> config]
    ELSE [obj |-> BaseVocabulary_init(kwargs.vocab, kwargs.pad, kwargs.blank,
                                      kwargs.bos, kwargs.eos),
          config |-> config]

\* BaseVocabulary.char_to_id
BaseVocabulary_char_to_id(obj, char) ==
    IF char \in DOMAIN obj.char_to_id
    THEN [op |-> "char_to_id", arg |-> char, exc |-> "none", val |-> obj.char_to_id[char]]
    ELSE [op |-> "char_to_id", arg |-> char, exc |-> "KeyError", val |-> char]

\* BaseVocabulary.id_to_char
BaseVocabulary_id_to_char(obj, idx) ==
    IF idx \in DOMAIN obj.id_to_char
    THEN [op |-> "id_to_char", arg |-> idx, exc |-> "none", val |-> obj.id_to_char[idx]]
    ELSE [op |-> "id_to_char", arg |-> idx, exc |-> "KeyError", val |-> idx]

\* BaseVocabulary.pad_id
BaseVocabulary_pad_id(obj) ==
    IF truthy(obj.pad)
    THEN [BaseVocabulary_char_to_id(obj, obj.pad) EXCEPT !.op = "pad_id"]
    ELSE [op |-> "pad_id", arg |-> obj.pad, exc |-> "none", val |-> Len(obj.vocab)]

\* BaseVocabulary.blank_id
BaseVocabulary_blank_id(obj) ==
    IF truthy(obj.blank)
    THEN [BaseVocabulary_char_to_id(obj, obj.blank) EXCEPT !.op = "blank_id"]
    ELSE [op |-> "blank_id", arg |-> obj.blank, exc |-> "none", val |-> Len(obj.vocab)]

----------------------------------------------------------------------------
(* Inputs *)

\* keyword arguments of BaseCharacters(...); an omitted argument takes its
\* default (None, is_unique False, is_sorted True), which the sets include
Kwargs ==
    [characters : CharacterInputs, punctuations : PunctuationInputs,
     pad : PadInputs, eos : EosInputs, bos : BosInputs, blank : BlankInputs,
     is_unique : BOOLEAN, is_sorted : BOOLEAN]

\* BaseCharacters(): every argument at its default
Defaults ==
    [characters |-> None, punctuations |-> None, pad |-> None, eos |-> None,
     bos |-> None, blank |-> None, is_unique |-> FALSE, is_sorted |-> TRUE]

\* configs handed to BaseCharacters.init_from_config: no characters section,
\* or one that gives the two inventories and the pad
CharacterConfigs ==
    {[characters |-> NoCharacters]}
    \cup {[characters |-> <<[Defaults EXCEPT !.characters = c, !.punctuations = p,
                                              !.pad = d]>>] :
            c \in CharacterInputs, p \in PunctuationInputs, d \in {None, _pad}}

\* dicts Symbol -> Id: items in insertion order, keys distinct
Dicts ==
    LET items == {<<k, i>> : k \in {<<LetterA>>, <<LetterB>>, _pad}, i \in 0..MaxDict}
        Seqs(n) == [1..n -> items]
    IN {d \in UNION {Seqs(n) : n \in 0..MaxDict} :
            \A i, j \in 1..Len(d) : d[i][1] = d[j][1] => i = j}

\* configs handed to BaseVocabulary.init_from_config
VocabularyConfigs ==
    {[characters |-> NoCharacters]}
    \cup {[characters |-> <<[has_vocab_dict |-> h, vocab_dict |-> d, pad |-> p,
                             blank |-> b, bos |-> None, eos |-> None]>>] :
            h \in BOOLEAN, d \in Dicts, p \in {None, <<>>, _pad}, b \in {None, _blank}}

\* **kwargs handed to BaseVocabulary.init_from_config
VocabularyKwargs ==
    {[vocab |-> d, pad |-> None, blank |-> None, bos |-> None, eos |-> None] :
        d \in {<<>>, << <<_blank, 0>> >>}}

SymbolProbes == {<<LetterA>>, <<Bang>>, <<Zed>>, _pad, <<>>}
IdProbes(n) == {-1, 0, n - 1, n}

NoObject == <<>>
NoRet == [op |-> "none", arg |-> None, exc |-> "none", val |-> None]

\* no lookup has been recorded since the object was built or rebuilt
Idle == ret.op \in {"none", "init_from_config", "setter"}

----------------------------------------------------------------------------
(* Operations *)

Init ==
    /\ pc = "start"
    /\ self = NoObject
    /\ built = "none"
    /\ dups = {}
    /\ ret = NoRet

\* the caller holds the object only if __init__ returned
Constructed(r, returned) ==
    /\ pc' = IF r.exc = "none" THEN "chars" ELSE "failed"
    /\ self' = r.obj
    /\ built' = r.exc
    /\ dups' = r.dups
    /\ ret' = returned

\* characters = BaseCharacters(...)
Construct ==
    /\ pc = "start"
    /\ \E k \in Kwargs :
         \E order \in IterationOrders(k) :
            Constructed(BaseCharacters_init(k, order), NoRet)

\* BaseCharacters.init_from_config(config)
InitFromConfig ==
    /\ pc = "start"
    /\ \E config \in CharacterConfigs :
         LET k == IF config.characters # NoCharacters THEN config.characters[1]
                  ELSE Defaults
         IN \E order \in IterationOrders(k) :
              LET r == BaseCharacters_init(k, order)
              IN Constructed(r, [op |-> "init_from_config", arg |-> config,
                                 exc |-> r.exc,
                                 val |-> IF r.exc = "none" THEN config ELSE None])

\* a property setter: assign the attribute, then _create_vocab; an exception
\* leaves the object with the caller.  Runs are followed past an
\* AssertionError, and up to the lookups that follow a TypeError.
Rebuilt(obj) ==
    /\ pc = "chars"
    /\ Idle
    /\ \E order \in IterationOrders(obj) :
         LET r == _create_vocab(obj, order)
         IN /\ self' = r.obj
            /\ built' = r.exc
            /\ dups' = r.dups
            /\ pc' = IF r.exc = "TypeError" THEN "stale" ELSE "chars"
            /\ ret' = [op |-> "setter", arg |-> None, exc |-> r.exc, val |-> None]

SetCharacters == \E x \in CharacterInputs : Rebuilt([self EXCEPT !.characters = x])
SetPunctuations == \E x \in PunctuationInputs : Rebuilt([self EXCEPT !.punctuations = x])
SetPad == \E x \in PadInputs : Rebuilt([self EXCEPT !.pad = x])
SetEos == \E x \in EosInputs : Rebuilt([self EXCEPT !.eos = x])
SetBos == \E x \in BosInputs : Rebuilt([self EXCEPT !.bos = x])
SetBlank == \E x \in BlankInputs : Rebuilt([self EXCEPT !.blank = x])

\* a lookup leaves the object as it is, so one recorded lookup per run reaches
\* every pair of an object state and a lookup result
Returned(r) ==
    /\ Idle
    /\ ret' = r
    /\ UNCHANGED <<pc, self, built, dups>>

CharToId == pc \in {"chars", "stale"} /\ \E s \in SymbolProbes : Returned(char_to_id(self, s))
IdToChar == pc \in {"chars", "stale"} /\ \E i \in IdProbes(num_chars(self)) : Returned(id_to_char(self, i))
PadId == pc \in {"chars", "stale"} /\ Returned(pad_id(self))
BlankId == pc \in {"chars", "stale"} /\ Returned(blank_id(self))

\* BaseVocabulary.init_from_config(config, **kwargs)
VocabInitFromConfig ==
    /\ pc = "start"
    /\ \E config \in VocabularyConfigs, kwargs \in VocabularyKwargs :
         LET r == BaseVocabulary_init_from_config(config, kwargs)
         IN /\ self' = r.obj
            /\ ret' = [op |-> "init_from_config", arg |-> config, exc |-> "none",
                        val |-> r.config]
    /\ pc' = "vocab"
    /\ built' = "none"
    /\ dups' = {}

VocabCharToId ==
    pc = "vocab" /\ \E s \in SymbolProbes : Returned(BaseVocabulary_char_to_id(self, s))
VocabIdToChar ==
    pc = "vocab" /\ \E i \in IdProbes(Len(self.vocab)) :
                        Returned(BaseVocabulary_id_to_char(self, i))
VocabPadId == pc = "vocab" /\ Returned(BaseVocabulary_pad_id(self))
VocabBlankId == pc = "vocab" /\ Returned(BaseVocabulary_blank_id(self))

Next ==
    \/ Construct
    \/ InitFromConfig
    \/ SetCharacters
    \/ SetPunctuations
    \/ SetPad
    \/ SetEos
    \/ SetBos
    \/ SetBlank
    \/ CharToId
    \/ IdToChar
    \/ PadId
    \/ BlankId
    \/ VocabInitFromConfig
    \/ VocabCharToId
    \/ VocabIdToChar
    \/ VocabPadId
    \/ VocabBlankId

Spec == Init /\ [][Next]_vars

----------------------------------------------------------------------------
(* Vocabulary of the properties *)

\* the caller holds a BaseCharacters whose last build returned normally
BuiltOk == pc = "chars" /\ built = "none"

\* a control token as it is meant to appear: once if set and non-empty
Present(token) == IF token = None \/ token = <<>> THEN <<>> ELSE <<token>>

Controls(obj) ==
    Present(obj.pad) \o Present(obj.eos) \o Present(obj.bos) \o Present(obj.blank)

\* the part of a vocab between the control tokens and the punctuation tail
Segment(obj) ==
    SubSeq(obj.vocab, Len(Controls(obj)) + 1, Len(obj.vocab) - Len(obj.punctuations))

Ascending(v) == \A i \in 1..(Len(v) - 1) : ~StrLess(v[i + 1], v[i])

SameBag(v, w) == \A x \in Range(v) \cup Range(w) : count(v, x) = count(w, x)

\* v without the repeats of an element, first occurrences kept in place
RECURSIVE FirstOccurrences(_)
FirstOccurrences(v) ==
    IF v = <<>> THEN <<>>
    ELSE LET init == FirstOccurrences(SubSeq(v, 1, Len(v) - 1))
             last == v[Len(v)]
         IN IF last \in Range(init) THEN init ELSE Append(init, last)

NoRepeats(v) == \A i, j \in 1..Len(v) : v[i] = v[j] => i = j

\* every symbol a lookup may be asked for
Symbols ==
    {<<Bang>>, <<Zed>>, <<LetterA>>, <<LetterB>>, <<>>, _pad, _eos, _bos, _blank}

\* vocab is controls, then a characters segment, then the punctuations as given
Framed(obj) ==
    /\ Len(obj.vocab) >= Len(Controls(obj)) + Len(obj.punctuations)
    /\ SubSeq(obj.vocab, 1, Len(Controls(obj))) = Controls(obj)
    /\ SubSeq(obj.vocab, Len(obj.vocab) - Len(obj.punctuations) + 1, Len(obj.vocab))
         = list(obj.punctuations)

\* the characters segment when the characters are sorted, or not deduplicated
SegmentAsGiven(obj) ==
    LET given == IF obj.is_unique THEN FirstOccurrences(list(obj.characters))
                 ELSE list(obj.characters)
    IN IF obj.is_sorted
       THEN Ascending(Segment(obj)) /\ SameBag(Segment(obj), given)
       ELSE Segment(obj) = given

----------------------------------------------------------------------------
(* C1 *)

----------------------------------------------------------------------------
(* C2 *)

\* C2: in a vocabulary built with is_unique and is_sorted the lookups are
\* mutually inverse: char_to_id(id_to_char(i)) = i for every id i below
\* num_chars, and id_to_char(char_to_id(s)) = s for every symbol s of vocab.
C2_RoundTrip ==
    (BuiltOk /\ self.is_unique /\ self.is_sorted) =>
        /\ \A i \in 0..(num_chars(self) - 1) :
             /\ id_to_char(self, i).exc = "none"
             /\ char_to_id(self, id_to_char(self, i).val).exc = "none"
             /\ char_to_id(self, id_to_char(self, i).val).val = i
        /\ \A s \in Range(self.vocab) :
             /\ char_to_id(self, s).exc = "none"
             /\ id_to_char(self, char_to_id(self, s).val).exc = "none"
             /\ id_to_char(self, char_to_id(self, s).val).val = s

\* a unique, sorted vocabulary of controls, letters and a punctuation, on
\* which id_to_char has just answered for the last id
C2_Witness ==
    /\ BuiltOk /\ self.is_unique /\ self.is_sorted
    /\ num_chars(self) >= 4
    /\ ret.op = "id_to_char" /\ ret.exc = "none"
    /\ ret.arg = num_chars(self) - 1
    /\ char_to_id(self, ret.val).val = ret.arg

----------------------------------------------------------------------------
(* C3 *)

AllControlsSet(obj) ==
    truthy(obj.pad) /\ truthy(obj.eos) /\ truthy(obj.bos) /\ truthy(obj.blank)

\* the symbols of the characters and punctuations inventories
Inventory(obj) == Range(list(obj.characters)) \cup Range(list(obj.punctuations))

ControlsFirst(obj) ==
    /\ char_to_id(obj, obj.pad).val < char_to_id(obj, obj.eos).val
    /\ char_to_id(obj, obj.eos).val < char_to_id(obj, obj.bos).val
    /\ char_to_id(obj, obj.bos).val < char_to_id(obj, obj.blank).val
    /\ \A s \in Inventory(obj) :
         char_to_id(obj, obj.blank).val < char_to_id(obj, s).val

\* C3 as stated: whatever is_unique and is_sorted are, with pad, eos, bos and
\* blank all non-empty their ids ascend in that order and the id of blank is
\* below the id of every character and punctuation.
C3_AsStated == (BuiltOk /\ AllControlsSet(self)) => ControlsFirst(self)

ControlsDistinct(obj) ==
    /\ NoRepeats(<<obj.pad, obj.eos, obj.bos, obj.blank>>)
    /\ {obj.pad, obj.eos, obj.bos, obj.blank} \cap Inventory(obj) = {}

\* C3, amended: the same, for control tokens that are pairwise distinct and
\* occur neither among the characters nor among the punctuations (which a
\* successful build with is_unique guarantees).
C3_ControlsFirst ==
    /\ (BuiltOk /\ AllControlsSet(self) /\ ControlsDistinct(self)) => ControlsFirst(self)
    /\ (BuiltOk /\ AllControlsSet(self) /\ self.is_unique) => ControlsDistinct(self)

\* four distinct control tokens ahead of two letters and a punctuation
C3_Witness ==
    /\ BuiltOk /\ AllControlsSet(self) /\ ControlsDistinct(self)
    /\ Cardinality(Inventory(self)) >= 3
    /\ SubSeq(self.vocab, 1, 4) = <<_pad, _eos, _bos, _blank>>
    /\ self.char_to_id[_blank] = 3

----------------------------------------------------------------------------
(* C4 *)

\* how often symbol x is put into the vocab of obj: once per control token
\* equal to it, once if it is a character, once per occurrence in punctuations
Occurrences(obj, x) ==
    count(Controls(obj), x)
    + (IF x \in Range(list(obj.characters)) THEN 1 ELSE 0)
    + count(list(obj.punctuations), x)

\* the outcome of the last build is known and it got past the iteration of
\* both inventories
Assembled == pc \in {"chars", "failed"} /\ built # "TypeError"

----------------------------------------------------------------------------
(* C5 *)

SentinelOrId(obj, token, r) ==
    /\ r.exc = "none"
    /\ IF token = None \/ token = <<>>
       THEN r.val = num_chars(obj) /\ r.val \notin 0..(num_chars(obj) - 1)
       ELSE /\ r.val \in 0..(num_chars(obj) - 1)
            /\ obj.vocab[r.val + 1] = token
            /\ r.val = char_to_id(obj, token).val

\* C5: on a successfully built vocabulary pad_id never raises; it is
\* num_chars, outside the id range, if pad is None or empty, and otherwise
\* char_to_id(pad), inside the range.  The same for blank_id and blank.
C5_SentinelFallback ==
    BuiltOk =>
        /\ SentinelOrId(self, self.pad, pad_id(self))
        /\ SentinelOrId(self, self.blank, blank_id(self))
        /\ ret.op = "pad_id" => SentinelOrId(self, self.pad, ret)
        /\ ret.op = "blank_id" => SentinelOrId(self, self.blank, ret)

\* pad_id has answered with the sentinel on a non-empty vocabulary whose pad
\* is the empty string
C5_Witness ==
    /\ BuiltOk
    /\ self.pad = <<>>
    /\ num_chars(self) >= 2
    /\ ret.op = "pad_id" /\ ret.exc = "none" /\ ret.val = num_chars(self)

----------------------------------------------------------------------------
(* C6 *)

\* C6: on a successfully built or rebuilt vocabulary char_to_id(s) raises the
\* KeyError carrying s exactly when s is not in vocab, and otherwise returns
\* an id below num_chars at which vocab holds exactly s; id_to_char(i) raises
\* exactly when i is not in 0..num_chars-1.
C6_UnknownLookups ==
    BuiltOk =>
        /\ \A s \in Symbols :
             LET r == char_to_id(self, s)
             IN IF s \in Range(self.vocab)
                THEN /\ r.exc = "none"
                     /\ r.val \in 0..(num_chars(self) - 1)
                     /\ self.vocab[r.val + 1] = s
                ELSE r.exc = "KeyError" /\ r.val = s
        /\ \A i \in -1..(num_chars(self) + 1) :
             id_to_char(self, i).exc = "KeyError" <=> i \notin 0..(num_chars(self) - 1)
        /\ ret.op = "char_to_id" => (ret.exc = "KeyError" <=> ret.arg \notin Range(self.vocab))
        /\ ret.op = "id_to_char" => (ret.exc = "KeyError" <=> ret.arg \notin 0..(num_chars(self) - 1))

\* char_to_id("Z") has raised on a vocabulary that holds other letters
C6_Witness ==
    /\ BuiltOk
    /\ num_chars(self) >= 3
    /\ ret.op = "char_to_id" /\ ret.arg = <<Zed>> /\ ret.exc = "KeyError"
    /\ ret.val = <<Zed>>

----------------------------------------------------------------------------
(* C7 *)

\* init_from_config has just returned a BaseVocabulary made from the
\* vocab_dict of the config
FromVocabDict ==
    /\ pc = "vocab"
    /\ ret.op = "init_from_config"
    /\ ret.arg.characters # NoCharacters
    /\ ret.arg.characters[1].has_vocab_dict
    /\ Len(ret.arg.characters[1].vocab_dict) > 0

\* C7 as stated: the vocabulary returned for a config with a non-empty
\* vocab_dict is that mapping: char_to_id(s) = vocab_dict[s] and
\* id_to_char(vocab_dict[s]) = s for every key s, and the config comes back
\* unchanged.
C7_AsStated ==
    FromVocabDict =>
        LET d == ret.arg.characters[1].vocab_dict
        IN /\ ret.val = ret.arg
           /\ \A n \in 1..Len(d) :
                /\ BaseVocabulary_char_to_id(self, d[n][1]).exc = "none"
                /\ BaseVocabulary_char_to_id(self, d[n][1]).val = d[n][2]
                /\ BaseVocabulary_id_to_char(self, d[n][2]).exc = "none"
                /\ BaseVocabulary_id_to_char(self, d[n][2]).val = d[n][1]

----------------------------------------------------------------------------
(* C8 *)

\* the constructor has just run: no setter and no lookup since
Fresh == pc \in {"chars", "failed"} /\ ret.op \in {"none", "init_from_config"}

OrEmpty(s) == IF s = None THEN <<>> ELSE s

\* C8 as stated: a construction with punctuations omitted succeeds like one
\* with empty punctuations, and one with characters omitted or empty succeeds
\* with vocab the control tokens followed by the punctuations; the
\* all-defaults construction of init_from_config included.
C8_AsStated ==
    (/\ Fresh
     /\ self.punctuations = None \/ self.characters \in {None, <<>>}
     /\ built # "AssertionError") =>
        /\ pc = "chars"
        /\ built = "none"
        /\ self.punctuations = None
             => Len(self.vocab)
                  = Len(Controls(self))
                    + (IF self.is_unique
                       THEN Cardinality(Range(list(OrEmpty(self.characters))))
                       ELSE Len(OrEmpty(self.characters)))
        /\ self.characters \in {None, <<>>}
             => self.vocab = Controls(self) \o list(OrEmpty(self.punctuations))

----------------------------------------------------------------------------
(* C9 *)

\* C9 as stated: after a setter's rebuild has failed the duplicate check the
\* object does not hold the rejected vocab, and no lookup answers from it.
C9_AsStated ==
    (pc = "chars" /\ built = "AssertionError") =>
        /\ NoRepeats(self.vocab)
        /\ \A s \in dups : char_to_id(self, s).exc # "none"
        /\ ret.op = "char_to_id" => ret.arg \notin dups \/ ret.exc # "none"

----------------------------------------------------------------------------
(* C10 *)

\* the tables are the position enumeration of vocab and hold nothing else
Enumerates(obj) ==
    /\ DOMAIN obj.id_to_char = 0..(Len(obj.vocab) - 1)
    /\ \A i \in DOMAIN obj.id_to_char : obj.id_to_char[i] = obj.vocab[i + 1]
    /\ DOMAIN obj.char_to_id = Range(obj.vocab)
    /\ \A s \in DOMAIN obj.char_to_id :
         /\ obj.char_to_id[s] \in 0..(Len(obj.vocab) - 1)
         /\ obj.vocab[obj.char_to_id[s] + 1] = s
         /\ \A j \in 1..Len(obj.vocab) : obj.vocab[j] = s => j - 1 <= obj.char_to_id[s]

\* C10: after construction and after successful setter calls, vocab is one a
\* fresh build from the current parameters can produce, and the two tables
\* are exactly the position enumeration of the current vocab.
C10_RebuildIsFresh ==
    BuiltOk =>
        /\ \E order \in IterationOrders(self) :
             LET fresh == BaseCharacters_init(self, order)
             IN fresh.exc = "none" /\ fresh.obj.vocab = self.vocab
        /\ Enumerates(self)

\* a setter has just rebuilt a vocabulary of at least three symbols
C10_Witness ==
    /\ BuiltOk
    /\ ret.op = "setter"
    /\ num_chars(self) >= 3
    /\ Enumerates(self)

====
